---------------------------- MODULE Spec2Model ----------------------------
(***************************************************************************)
(* Model of the document ingestion pipeline of word-editor:                *)
(*   - the /api/embed request handler (app/api/embed/route.ts and the      *)
(*     Express twin in electron/api-server.ts), with the pipeline          *)
(*     processAndEmbedPDF / generateEmbeddings it drives and the Convex    *)
(*     mutations it calls (convex/embeddings.ts);                          *)
(*   - the section-aware chunker chunkText / splitByParagraphs /           *)
(*     detectSectionBoundaries (app/api/chat/embeddingProcessor.ts).       *)
(*                                                                         *)
(* Spec      : one ingestion request against the store, with a concurrent  *)
(*             deleteDocument.  Every await of the handler is a separate   *)
(*             step; the awaited call may succeed or throw.                *)
(* ChunkSpec : chunkText applied to bounded input texts.                   *)
(***************************************************************************)
EXTENDS Integers, Sequences, FiniteSets, TLC

(***************************************************************************)
(* Bounds of the model.                                                    *)
(***************************************************************************)
\* Largest number of chunks chunkText yields for the uploaded document.
MaxChunks == 201
\* Longest text over the three-character alphabet given to chunkText.
MaxShortLen == 7
\* Largest number of headed sections of a text given to chunkText.
MaxSections == 2
\* Largest number of chunks in the store a retrieval searches.
MaxStored == 11
\* Milliseconds that pass while two uploads are handled.
MaxClock == 2
\* Largest number of edits of one editTool call.
MaxEdits == 2

(***************************************************************************)
(* Program constants.                                                      *)
(***************************************************************************)
\* route.ts: const batchSize = 20 (upload batches)
UploadBatchSize == 20
\* embeddingProcessor.ts: const batchSize = 100 (embedMany batches)
EmbedBatchSize == 100

VARIABLES
    \* ---- the ingestion request (route.ts POST / stream start) ----
    pc,              \* position of the handler
    error,           \* the error caught by the handler's catch block ("none" if none)
    extracted,       \* what extractTextFromPDF gave: "none" yet, "throws", "blank", "text"
    chunks,          \* const chunks = chunkText(text)
    embI,            \* loop index i of generateEmbeddings
    allEmbeddings,   \* allEmbeddings of generateEmbeddings
    embedCalls,      \* the batches passed to embedMany, in order
    embedReturns,    \* how each embedMany call ended, in order
    embeddedChunks,  \* result of processAndEmbedPDF
    upI,             \* loop index i of the upload loop
    documentId,      \* const documentId = await createDocument(...)
    pending,         \* the store mutation the handler is awaiting
    events,          \* SSE events enqueued on the response stream, in order
    calls,           \* store mutations issued by the handler, in order
    returns,         \* how each issued mutation ended, in order
    \* ---- the Convex store ----
    documents,       \* rows of table "documents"
    chunkRows,       \* rows of table "chunks", in insertion order
    nextDocId,       \* next generated document id
    \* ---- chunkText applied to one input ----
    cpc,             \* "idle" | "input" | "done"
    text,            \* input text (sequence of one-character strings)
    maxChunkChars,
    overlapChars,
    result,          \* chunks returned by chunkText
    splitLog,        \* outputs of the splitByParagraphs calls made, in order
    detected,        \* what detectSectionBoundaries(text) returned to chunkText
    emitted,         \* the chunk texts pushed per section (per text without sections)
    \* ---- one retrieval (retrievalTool.execute or POST /api/embed/search) ----
    rpc,             \* position of the retrieval
    entry,           \* "tool" (retrievalTool.execute) | "route" (POST /api/embed/search)
    stored,          \* similarity to the query of the stored chunks, best first
    goneId,          \* a chunk deleted between vectorSearch and getChunkById (0: none)
    hasReranker,     \* whether COHERE_API_KEY is set
    reqLimit,        \* limit of the request body (route)
    reqMinScore,     \* minScore of the request body (route)
    candidates,      \* what searchByEmbedding returned
    reranked,        \* reranked.results of cohere.v2.rerank
    extCalls,        \* the services the retrieval called, and the one that failed
    response,        \* what the caller gets
    \* ---- two concurrent uploads to POST /api/embed (web upload branch) ----
    clock,           \* Date.now(), in milliseconds
    tmpFiles,        \* os.tmpdir()/word-editor-uploads: file name (a Date.now()) -> content
    uploads,         \* per request: position, tempFilePath, what extractTextFromPDF read
    \* ---- one editTool call handled by ChatPanel.onToolCall ----
    epc,             \* "idle" | "input" | "done"
    hasEditor,       \* whether useTiptap() gave an editor (else null)
    editorHtml,      \* the document: editor.getHTML()
    htmlBefore,      \* what editor.getHTML() gave executeEditorTool
    toolInput,       \* toolCall.input: [valid, edits]
    setContentThrows,\* whether editor.commands.setContent throws
    toolResult,      \* what executeEditorTool returned
    toolOutput       \* output passed to addToolOutput

ingestVars == <<pc, error, extracted, chunks, embI, allEmbeddings, embedCalls, embedReturns,
               embeddedChunks, upI, documentId, pending, events, calls, returns>>
storeVars == <<documents, chunkRows, nextDocId>>
chunkVars == <<cpc, text, maxChunkChars, overlapChars, result, splitLog, detected,
              emitted>>
retrVars == <<rpc, entry, stored, goneId, hasReranker, reqLimit, reqMinScore,
              candidates, reranked, extCalls, response>>
uploadVars == <<clock, tmpFiles, uploads>>
editVars == <<epc, hasEditor, editorHtml, htmlBefore, toolInput, setContentThrows, toolResult, toolOutput>>
vars == <<ingestVars, storeVars, chunkVars, retrVars, uploadVars, editVars>>

\* The least element of a non-empty set of integers.
MinOf(S) == CHOOSE x \in S : \A y \in S : x <= y

Min(a, b) == IF a < b THEN a ELSE b
Max(a, b) == IF a > b THEN a ELSE b

\* The sequences of ss put end to end.
Flatten(ss) ==
    LET F[k \in 0..Len(ss)] == IF k = 0 THEN <<>> ELSE F[k - 1] \o ss[k]
    IN  F[Len(ss)]

\* JavaScript s.slice(from, to) on 0-based offsets, for 0 <= from.
Slice(s, from, to) == SubSeq(s, from + 1, Min(to, Len(s)))

(***************************************************************************)
(* Ingestion pipeline                                                      *)
(***************************************************************************)
NoDoc == 0
NoCall == [op |-> "none", documentId |-> NoDoc, chunks |-> <<>>, totalChunks |-> 0]

\* One SSE "progress" event (sendProgress).
Progress(stage, progress) ==
    [type |-> "progress", stage |-> stage, progress |-> progress,
     totalChunks |-> 0, documentId |-> NoDoc]

\* The "result" event, the [DONE] sentinel and the "error" event.
ResultEvent(total, doc) ==
    [type |-> "result", stage |-> "result", progress |-> 0,
     totalChunks |-> total, documentId |-> doc]
DoneSentinel ==
    [type |-> "[DONE]", stage |-> "[DONE]", progress |-> 0,
     totalChunks |-> 0, documentId |-> NoDoc]
ErrorEvent ==
    [type |-> "error", stage |-> "error", progress |-> 0,
     totalChunks |-> 0, documentId |-> NoDoc]

\* The chunks of the extracted text: chunkText numbers them 0..n-1.  The text
\* of chunk k is abstracted to the token k.
ChunksOf(n) == [k \in 1..n |-> [chunkIndex |-> k - 1, text |-> k - 1]]

\* The embedding provider returns one vector per input, in input order; the
\* vector of text t is abstracted to the token t.
Embed(batch) == [k \in 1..Len(batch) |-> batch[k]]

\* embeddings[i] of a chunk that no vector was returned for: undefined.
NoVector == -1

\* A vector of a response that belongs to none of the texts of the request.
StrayVector == -2

\* How one embedMany call can end: it throws, or it returns one vector per
\* text in input order ("ok"), one vector too few ("short") or one too many
\* ("long").  generateEmbeddings takes the vectors as they come.
EmbedOutcomes == {"ok", "throws", "short", "long"}
Response(outcome, batch) ==
    CASE outcome = "ok" -> Embed(batch)
      [] outcome = "short" -> SubSeq(Embed(batch), 1, Len(batch) - 1)
      [] outcome = "long" -> Append(Embed(batch), StrayVector)
      [] OTHER -> <<>>

\* A generateEmbeddings that catches the error of embedMany and goes on.
EmbedErrorSwallowed(outcome) == FALSE

\* Whether the awaited embedMany throws: generateEmbeddings has no try block,
\* the error leaves it and processAndEmbedPDF and reaches the handler's catch.
EmbedThrows(outcome) == outcome = "throws"

\* A batch of one text more: texts.slice(i, i + batchSize + 1).
EmbedBatchOneTooMany(texts, i) == Slice(texts, i, i + EmbedBatchSize + 1)

\* generateEmbeddings: texts.slice(i, i + batchSize)
EmbedBatch(texts, i) == Slice(texts, i, i + EmbedBatchSize)

\* Math.round(40 + (processed / total) * 50); Math.round rounds half up.
EmbeddingProgress(processed, total) ==
    (81 * total + 100 * processed) \div (2 * total)

\* A combination that gives every chunk the vector behind its own.
CombineShifted(cs, embs) ==
    [k \in 1..Len(cs) |->
        [chunkIndex |-> cs[k].chunkIndex, text |-> cs[k].text,
         embedding |-> IF k + 1 <= Len(embs) THEN embs[k + 1] ELSE NoVector]]

\* processAndEmbedPDF step 4: chunks.map((chunk, i) => ({...chunk, embedding: embeddings[i]}))
Combine(cs, embs) ==
    [k \in 1..Len(cs) |->
        [chunkIndex |-> cs[k].chunkIndex, text |-> cs[k].text,
         embedding |-> IF k <= Len(embs) THEN embs[k] ELSE NoVector]]

\* A batch that takes one chunk too many: slice(i, i + batchSize + 1).
UploadBatchOneTooMany(ec, i) == Slice(ec, i, i + UploadBatchSize + 1)

\* route.ts: embeddedChunks.slice(i, i + batchSize)
UploadBatch(ec, i) == Slice(ec, i, i + UploadBatchSize)

\* route.ts: totalChunks: embeddedChunks.length
CompleteTotal(ec) == Len(ec)

\* A handler that swallows a rejected mutation and goes on.
MutationSwallowed(outcome) == FALSE

\* Whether an awaited store mutation makes the handler leave the try block:
\* convex.mutation rejects, the await throws, the catch block runs.
MutationThrows(outcome) == outcome # "ok"

\* Whether the mutation was committed by the store: it was when it answered,
\* and also when the answer was lost on the way back.
Committed(outcome) == outcome \in {"ok", "lost"}
Outcomes == {"ok", "rejected", "lost"}

StoreCall(doc, batch) ==
    [op |-> "storeChunks", documentId |-> doc,
     chunks |-> [k \in 1..Len(batch) |-> batch[k].chunkIndex], totalChunks |-> 0]
CompleteCall(doc, total) ==
    [op |-> "completeDocument", documentId |-> doc, chunks |-> <<>>,
     totalChunks |-> total]
CreateCall ==
    [op |-> "createDocument", documentId |-> NoDoc, chunks |-> <<>>, totalChunks |-> 0]

\* A catch block that closes the stream without an error event.
FailSilently(msg) ==
    /\ error' = msg
    /\ events' = events
    /\ pending' = NoCall
    /\ pc' = "closed"

\* The catch block of the stream: one error event, then controller.close().
\* It issues no store mutation.
Fail(msg) ==
    /\ error' = msg
    /\ events' = Append(events, ErrorEvent)
    /\ pending' = NoCall
    /\ pc' = "closed"

IngestInit ==
    /\ pc = "idle"
    /\ error = "none"
    /\ extracted = "none"
    /\ chunks = <<>>
    /\ embI = 0
    /\ allEmbeddings = <<>>
    /\ embedCalls = <<>>
    /\ embedReturns = <<>>
    /\ embeddedChunks = <<>>
    /\ upI = 0
    /\ documentId = NoDoc
    /\ pending = NoCall
    /\ events = <<>>
    /\ calls = <<>>
    /\ returns = <<>>
    /\ documents = {}
    /\ chunkRows = <<>>
    /\ nextDocId = 1

ChunkIdle ==
    /\ cpc = "idle"
    /\ text = <<>>
    /\ maxChunkChars = 0
    /\ overlapChars = 0
    /\ result = <<>>
    /\ splitLog = <<>>
    /\ detected = <<>>
    /\ emitted = <<>>

\* A request body field that is not given.
NotGiven == -1

\* No service called yet, none failed.
NoCalls == [called |-> {}, failed |-> "none"]

NoResponse == [status |-> "none", kind |-> "none", results |-> <<>>]

RetrIdle ==
    /\ rpc = "idle"
    /\ entry = "none"
    /\ stored = <<>>
    /\ goneId = 0
    /\ hasReranker = FALSE
    /\ reqLimit = NotGiven
    /\ reqMinScore = NotGiven
    /\ candidates = <<>>
    /\ reranked = <<>>
    /\ extCalls = NoCalls
    /\ response = NoResponse

\* The values of Date.now() while the uploads are handled (the first is 0).
Millis == 0..MaxClock

\* The two requests; request r uploads the bytes r.
Requests == {1, 2}

\* No file of that name in the directory.
NoFile == 0

\* tempFilePath = null
NoPath == -1

\* extractTextFromPDF not called yet; fs.readFileSync threw ENOENT.
NotRead == 0
Enoent == -1

UploadIdle ==
    /\ clock = 0
    /\ tmpFiles = [t \in Millis |-> NoFile]
    /\ uploads = [r \in Requests |-> [pc |-> "off", tempFilePath |-> NoPath, got |-> NotRead]]

\* executeEditorTool has not returned.
NoResult == [success |-> FALSE, hasResult |-> FALSE, applied |-> 0, failed |-> 0,
             details |-> <<>>]

\* addToolOutput has not been called.
NoOutput == [kind |-> "none", applied |-> 0, failed |-> 0, details |-> <<>>]

EditIdle ==
    /\ epc = "idle"
    /\ hasEditor = FALSE
    /\ editorHtml = <<>>
    /\ htmlBefore = <<>>
    /\ toolInput = [valid |-> FALSE, edits |-> <<>>]
    /\ setContentThrows = FALSE
    /\ toolResult = NoResult
    /\ toolOutput = NoOutput

Init == IngestInit /\ ChunkIdle /\ RetrIdle /\ UploadIdle /\ EditIdle

\* POST answers 400 before any stream exists (no file, bad path, not a .pdf).
RejectRequest ==
    /\ pc = "idle"
    /\ pc' = "rejected"
    /\ UNCHANGED <<error, extracted, chunks, embI, allEmbeddings, embedCalls, embedReturns,
                   embeddedChunks, upI, documentId, pending, events, calls, returns>>
    /\ UNCHANGED <<storeVars, chunkVars, retrVars, uploadVars, editVars>>

\* The stream starts: processAndEmbedPDF reports "extracting" and awaits
\* extractTextFromPDF.
StartRequest ==
    /\ pc = "idle"
    /\ events' = Append(events, Progress("extracting", 10))
    /\ pc' = "extracting"
    /\ UNCHANGED <<error, extracted, chunks, embI, allEmbeddings, embedCalls, embedReturns,
                   embeddedChunks, upI, documentId, pending, calls, returns>>
    /\ UNCHANGED <<storeVars, chunkVars, retrVars, uploadVars, editVars>>

\* A pipeline without the check of the extracted text.
BlankAccepted(outcome) == FALSE

\* if (!text.trim()) throw new Error('No text could be extracted ...')
BlankThrows(outcome) == outcome = "blank"

\* extractTextFromPDF returns (or throws).  On text: "chunking", chunkText,
\* "embedding" 40, and generateEmbeddings issues its first embedMany.
ExtractReturn(outcome, n) ==
    /\ pc = "extracting"
    /\ extracted' = outcome
    /\ IF outcome = "throws"
       THEN /\ Fail("ExtractionFailed")
            /\ UNCHANGED <<chunks, embI, allEmbeddings, embedCalls>>
       ELSE IF BlankThrows(outcome)
       THEN /\ Fail("NoText")
            /\ UNCHANGED <<chunks, embI, allEmbeddings, embedCalls>>
       ELSE /\ chunks' = ChunksOf(n)
            /\ events' = events \o <<Progress("chunking", 30), Progress("embedding", 40)>>
            /\ embI' = 0
            /\ allEmbeddings' = <<>>
            /\ embedCalls' =
                  <<EmbedBatch([k \in 1..n |-> ChunksOf(n)[k].text], 0)>>
            /\ pc' = "embedding"
            /\ UNCHANGED <<error, pending>>
    /\ UNCHANGED <<embedReturns, embeddedChunks, upI, documentId, calls, returns>>
    /\ UNCHANGED <<storeVars, chunkVars, retrVars, uploadVars, editVars>>

\* embedMany returns (or throws) for the batch at embI.  After the last batch
\* processAndEmbedPDF combines, reports "done" and returns; the handler reports
\* "uploading", builds the Convex client and issues createDocument.
EmbedReturn(outcome, configured) ==
    /\ pc = "embedding"
    /\ embedReturns' = Append(embedReturns, outcome)
    /\ IF EmbedThrows(outcome)
       THEN /\ Fail("EmbeddingFailed")
            /\ UNCHANGED <<embI, allEmbeddings, embedCalls, embeddedChunks, calls>>
       ELSE LET texts == [k \in 1..Len(chunks) |-> chunks[k].text]
                all == allEmbeddings \o Response(outcome, EmbedBatch(texts, embI))
                processed == Min(embI + EmbedBatchSize, Len(texts))
                ev == Progress("embedding", EmbeddingProgress(processed, Len(texts)))
                i2 == embI + EmbedBatchSize
            IN  /\ allEmbeddings' = all
                /\ embI' = i2
                /\ IF i2 < Len(texts)
                   THEN /\ events' = Append(events, ev)
                        /\ embedCalls' = Append(embedCalls, EmbedBatch(texts, i2))
                        /\ UNCHANGED <<pc, error, pending, embeddedChunks, calls>>
                   ELSE /\ embeddedChunks' = Combine(chunks, all)
                        /\ embedCalls' = embedCalls
                        /\ IF configured
                           THEN /\ events' = events \o
                                     <<ev, Progress("done", 100), Progress("uploading", 92)>>
                                /\ pending' = CreateCall
                                /\ calls' = Append(calls, CreateCall)
                                /\ pc' = "creating"
                                /\ error' = error
                           ELSE /\ events' = events \o
                                     <<ev, Progress("done", 100), Progress("uploading", 92),
                                       ErrorEvent>>
                                /\ error' = "ConfigError"
                                /\ pending' = NoCall
                                /\ pc' = "closed"
                                /\ calls' = calls
    /\ UNCHANGED <<extracted, chunks, upI, documentId, returns>>
    /\ UNCHANGED <<storeVars, chunkVars, retrVars, uploadVars, editVars>>

\* What the handler issues once the batch loop stands at index i.
NextUpload(doc, ec, i) ==
    IF i < Len(ec) THEN StoreCall(doc, UploadBatch(ec, i))
    ELSE CompleteCall(doc, CompleteTotal(ec))

\* createDocument returns (or throws).
CreateReturn(outcome) ==
    /\ pc = "creating"
    /\ returns' = Append(returns, outcome)
    /\ IF Committed(outcome)
       THEN /\ documents' = documents \cup
                   {[id |-> nextDocId, status |-> "processing", totalChunks |-> 0,
                     error |-> "none"]}
            /\ nextDocId' = nextDocId + 1
       ELSE UNCHANGED <<documents, nextDocId>>
    /\ IF MutationThrows(outcome)
       THEN /\ Fail("StorageFailed")
            /\ UNCHANGED <<documentId, upI, calls>>
       ELSE LET call == NextUpload(nextDocId, embeddedChunks, 0)
            IN  /\ documentId' = nextDocId
                /\ upI' = 0
                /\ pending' = call
                /\ calls' = Append(calls, call)
                /\ pc' = IF call.op = "storeChunks" THEN "storing" ELSE "completing"
                /\ UNCHANGED <<error, events>>
    /\ UNCHANGED <<extracted, chunks, embI, allEmbeddings, embedCalls, embedReturns,
                   embeddedChunks, chunkRows>>
    /\ UNCHANGED <<chunkVars, retrVars, uploadVars, editVars>>

\* Rows storeChunks inserts for a batch.
RowsOf(doc, batch) ==
    [k \in 1..Len(batch) |->
        [documentId |-> doc, chunkIndex |-> batch[k].chunkIndex,
         text |-> batch[k].text, embedding |-> batch[k].embedding]]

\* storeChunks args: embedding: v.array(v.float64()).  A chunk without vector
\* fails the validation of the arguments and the mutation is rejected.
ArgsValid(batch) == \A k \in 1..Len(batch) : batch[k].embedding # NoVector

\* storeChunks returns (or throws) for the batch at upI.
StoreReturn(outcome) ==
    /\ pc = "storing"
    /\ ArgsValid(UploadBatch(embeddedChunks, upI)) \/ outcome = "rejected"
    /\ returns' = Append(returns, outcome)
    /\ chunkRows' = IF Committed(outcome)
                    THEN chunkRows \o RowsOf(documentId, UploadBatch(embeddedChunks, upI))
                    ELSE chunkRows
    /\ IF MutationThrows(outcome)
       THEN /\ Fail("StorageFailed")
            /\ UNCHANGED <<upI, calls>>
       ELSE LET i2 == upI + UploadBatchSize
                call == NextUpload(documentId, embeddedChunks, i2)
            IN  /\ upI' = i2
                /\ pending' = call
                /\ calls' = Append(calls, call)
                /\ pc' = IF call.op = "storeChunks" THEN "storing" ELSE "completing"
                /\ UNCHANGED <<error, events>>
    /\ UNCHANGED <<extracted, chunks, embI, allEmbeddings, embedCalls, embedReturns,
                   embeddedChunks, documentId>>
    /\ UNCHANGED <<documents, nextDocId>>
    /\ UNCHANGED <<chunkVars, retrVars, uploadVars, editVars>>

\* ctx.db.patch(id, fields): throws when the row does not exist.
Patch(docs, id, status, total) ==
    {IF d.id = id THEN [d EXCEPT !.status = status, !.totalChunks = total] ELSE d
        : d \in docs}

\* completeDocument returns (or throws).  On success: "result", [DONE], close.
CompleteReturn(outcome) ==
    /\ pc = "completing"
    /\ returns' = Append(returns, outcome)
    /\ (\E d \in documents : d.id = documentId) \/ outcome = "rejected"
    /\ documents' = IF Committed(outcome)
                    THEN Patch(documents, documentId, "completed", pending.totalChunks)
                    ELSE documents
    /\ IF MutationThrows(outcome)
       THEN Fail("StorageFailed")
       ELSE /\ events' = events \o
                 <<ResultEvent(CompleteTotal(embeddedChunks), documentId), DoneSentinel>>
            /\ pending' = NoCall
            /\ pc' = "closed"
            /\ error' = error
    /\ UNCHANGED <<extracted, chunks, embI, allEmbeddings, embedCalls, embedReturns,
                   embeddedChunks, upI, documentId, calls>>
    /\ UNCHANGED <<chunkRows, nextDocId>>
    /\ UNCHANGED <<chunkVars, retrVars, uploadVars, editVars>>

\* DELETE /api/embed/documents/:id -> deleteDocument: all chunks of the
\* document, then the document row, in one mutation.
DeleteDocument(id) ==
    /\ \E d \in documents : d.id = id
    /\ documents' = {d \in documents : d.id # id}
    /\ chunkRows' = SelectSeq(chunkRows, LAMBDA r : r.documentId # id)
    /\ UNCHANGED nextDocId
    /\ UNCHANGED <<ingestVars, chunkVars, retrVars, uploadVars, editVars>>

\* The numbers of chunks the extracted text is taken to yield: the smallest
\* ones, the largest one, and those at and next to a multiple of the upload
\* batch size (the embedding batch size is a multiple of it).
ChunkCounts ==
    {n \in 1..MaxChunks :
        n <= 2 \/ n = MaxChunks \/ n % UploadBatchSize \in {0, 1, UploadBatchSize - 1}}

Next ==
    \/ RejectRequest
    \/ StartRequest
    \/ \E o \in {"throws", "blank", "text"}, n \in ChunkCounts : ExtractReturn(o, n)
    \/ \E o \in EmbedOutcomes, c \in BOOLEAN : EmbedReturn(o, c)
    \/ \E o \in Outcomes : CreateReturn(o)
    \/ \E o \in Outcomes : StoreReturn(o)
    \/ \E o \in Outcomes : CompleteReturn(o)
    \/ \E id \in 1..(nextDocId - 1) : DeleteDocument(id)

Spec == Init /\ [][Next]_vars

(***************************************************************************)
(* The chunker (embeddingProcessor.ts).  A text is a sequence of           *)
(* one-character strings.  The input alphabet is                           *)
(*     "a" (a lower-case letter)   "A" (an upper-case letter)   "#"        *)
(*     " " (a space)               "\n" (a line break)                     *)
(* Over this alphabet only two of HEADING_PATTERNS can match, the Markdown *)
(* pattern and the ALL CAPS pattern: every other pattern needs a digit.    *)
(***************************************************************************)
SP == " "
NL == "\n"
ParaBreak == <<NL, NL>>

\* \s of a JavaScript regular expression, and what String.trim removes.
IsSpace(c) == c \in {SP, NL}

\* [A-Z]
IsUpper(c) == c = "A"

\* heading of the implicit boundary { start: 0 }
Undefined == <<"undefined">>

\* What the non-terminating fixed-width loop (stride <= 0) is recorded as.
Diverges == <<"diverges">>

Rep(c, n) == [k \in 1..n |-> c]

\* First index >= i of s that holds no whitespace (Len(s) + 1 if none).
SkipSpace(s, i) ==
    LET S == {j \in i..Len(s) : ~IsSpace(s[j])}
    IN  IF S = {} THEN Len(s) + 1 ELSE MinOf(S)

\* Last index <= i of s that holds no whitespace (0 if none).
SkipSpaceBack(s, i) ==
    LET S == {d \in 0..(i - 1) : ~IsSpace(s[i - d])}
    IN  IF S = {} THEN 0 ELSE i - MinOf(S)

\* A trim that removes nothing.
NoTrim(s) == s

\* String.prototype.trim
Trim(s) == SubSeq(s, SkipSpace(s, 1), SkipSpaceBack(s, Len(s)))

\* s.slice(-n): the last n characters; slice(-0) is slice(0), the whole string.
SliceLast(s, n) ==
    IF n = 0 \/ n >= Len(s) THEN s ELSE SubSeq(s, Len(s) - n + 1, Len(s))

\* Largest index in lo..hi of s that holds a line break (0 if none).
LastNewline(s, lo, hi) ==
    LET S == {d \in 0..(hi - lo) : s[hi - d] = NL}
    IN  IF S = {} THEN 0 ELSE hi - MinOf(S)

\* Index of the last character of the match of /\n\s*\n/ that starts at index
\* p (0 if none): \s* is greedy and gives back up to the last line break.
BreakEnd(s, p) ==
    IF s[p] # NL THEN 0 ELSE LastNewline(s, p + 1, SkipSpace(s, p + 1) - 1)

RECURSIVE SplitFrom(_, _)
\* The pieces of s from index start on: up to the first match, then the rest.
SplitFrom(s, start) ==
    LET B == {p \in start..Len(s) : BreakEnd(s, p) # 0}
    IN  IF B = {} THEN <<SubSeq(s, start, Len(s))>>
        ELSE <<SubSeq(s, start, MinOf(B) - 1)>> \o SplitFrom(s, BreakEnd(s, MinOf(B)) + 1)

\* A split that returns the first piece only, as text.split(/\n\s*\n/, 1) does.
SplitFirstOnly(s) == <<SplitFrom(s, 1)[1]>>

\* text.split(/\n\s*\n/)
SplitParagraphs(s) == SplitFrom(s, 1)

\* A flush that seeds the next buffer with nothing of the previous one.
NoOverlapSeed(cur, ov) == <<>>

\* const overlap = currentChunk.slice(-overlapChars)
OverlapSeed(cur, ov) == SliceLast(cur, ov)

\* One iteration of the loop over the paragraphs; st = [chunks, cur].
ParagraphStep(st, para, max, ov) ==
    LET trimmed == Trim(para)
    IN  IF trimmed = <<>> THEN st
        ELSE IF Len(st.cur) + Len(trimmed) + 2 > max /\ st.cur # <<>>
             THEN [chunks |-> Append(st.chunks, Trim(st.cur)),
                   cur |-> OverlapSeed(st.cur, ov) \o ParaBreak \o trimmed]
             ELSE [chunks |-> st.chunks,
                   cur |-> st.cur \o (IF st.cur # <<>> THEN ParaBreak ELSE <<>>) \o trimmed]

RECURSIVE ParagraphLoop(_, _, _, _, _)
ParagraphLoop(paras, k, st, max, ov) ==
    IF k > Len(paras) THEN st
    ELSE ParagraphLoop(paras, k + 1, ParagraphStep(st, paras[k], max, ov), max, ov)

RECURSIVE FixedWidth(_, _, _, _)
\* for (let i = 0; i < cleaned.length; i += maxChunkChars - overlapChars)
\*     chunks.push(cleaned.slice(i, i + maxChunkChars).trim())
FixedWidth(cleaned, i, max, ov) ==
    IF i >= Len(cleaned) THEN <<>>
    ELSE IF max - ov <= 0 THEN <<Diverges>>
    ELSE <<Trim(Slice(cleaned, i, i + max))>> \o FixedWidth(cleaned, i + max - ov, max, ov)

\* A splitter that has only the split by character count.
SplitByWidthOnly(txt, max, ov) == FixedWidth(Trim(txt), 0, max, ov)

\* splitByParagraphs
SplitByParagraphs(txt, max, ov) ==
    LET st == ParagraphLoop(SplitParagraphs(txt), 1, [chunks |-> <<>>, cur |-> <<>>], max, ov)
        out == IF Trim(st.cur) # <<>> THEN Append(st.chunks, Trim(st.cur)) ELSE st.chunks
    IN  IF out = <<>> /\ Trim(txt) # <<>>
        THEN FixedWidth(Trim(txt), 0, max, ov)
        ELSE out

(***************************************************************************)
(* detectSectionBoundaries.  Offsets are 0-based as in the code: the       *)
(* character at offset p is s[p + 1].                                      *)
(***************************************************************************)
\* deduped: b.start - last.start > 50
DedupWindow == 50

\* First offset >= p whose character is not in cls (Len(s) if none).
RunEnd(s, p, cls) ==
    LET S == {q \in p..(Len(s) - 1) : s[q + 1] \notin cls}
    IN  IF S = {} THEN Len(s) ELSE MinOf(S)

\* Offset of the first line break at or after p (Len(s) if none): where "$" holds.
LineEnd(s, p) ==
    LET S == {q \in p..(Len(s) - 1) : s[q + 1] = NL}
    IN  IF S = {} THEN Len(s) ELSE MinOf(S)

\* "^" with flag m
AtLineStart(s, p) == p = 0 \/ s[p] = NL

\* "$" with flag m
AtLineEnd(s, p) == p = Len(s) \/ s[p + 1] = NL

\* Largest offset q in lo..hi at which "." can match (a character that is no
\* line break), -1 if none.
LastDotStart(s, lo, hi) ==
    LET S == {d \in 0..(hi - lo) : hi - d < Len(s) /\ s[hi - d + 1] # NL}
    IN  IF S = {} THEN -1 ELSE hi - MinOf(S)

\* Largest offset q in lo..hi at which "$" holds, -1 if none.
LastLineEnd(s, lo, hi) ==
    LET S == {d \in 0..(hi - lo) : AtLineEnd(s, hi - d)}
    IN  IF S = {} THEN -1 ELSE hi - MinOf(S)

NoMatch == [found |-> FALSE, start |-> 0, end |-> 0, heading |-> Undefined]

\* heading: match[1]?.trim() || match[0]?.trim()
HeadingOf(m1, m0) == IF Trim(m1) # <<>> THEN Trim(m1) ELSE Trim(m0)

\* /^#{1,3}\s+(.+)$/m at offset p: one to three "#" (a fourth makes \s+ fail),
\* whitespace (greedy, giving back until "." can match), then the rest of the line.
MarkdownMatch(s, p) ==
    LET w0 == RunEnd(s, p, {"#"})
        w1 == RunEnd(s, w0, {SP, NL})
        q == LastDotStart(s, w0 + 1, w1)
        e == LineEnd(s, q)
    IN  IF AtLineStart(s, p) /\ (w0 - p) \in 1..3 /\ q # -1
        THEN [found |-> TRUE, start |-> p, end |-> e,
              heading |-> HeadingOf(Slice(s, q, e), Slice(s, p, e))]
        ELSE NoMatch

\* /^([A-Z][A-Z\s]{4,})$/m at offset p: the class is greedy and gives back until
\* "$" holds, keeping four characters at least.
CapsMatch(s, p) ==
    LET r == RunEnd(s, p + 1, {"A", SP, NL})
        e == LastLineEnd(s, p + 5, r)
    IN  IF AtLineStart(s, p) /\ p < Len(s) /\ IsUpper(s[p + 1]) /\ e # -1
        THEN [found |-> TRUE, start |-> p, end |-> e,
              heading |-> HeadingOf(Slice(s, p, e), Slice(s, p, e))]
        ELSE NoMatch

PatternMatch(pat, s, p) ==
    IF pat = "markdown" THEN MarkdownMatch(s, p) ELSE CapsMatch(s, p)

\* HEADING_PATTERNS, in order, as far as they can match over the alphabet.
HeadingPatterns == <<"markdown", "caps">>

RECURSIVE ExecAll(_, _, _)
\* while ((match = globalPattern.exec(text)) !== null) boundaries.push(...)
ExecAll(pat, s, from) ==
    LET M == {p \in from..(Len(s) - 1) : PatternMatch(pat, s, p).found}
        m == PatternMatch(pat, s, MinOf(M))
    IN  IF M = {} THEN <<>>
        ELSE <<[start |-> m.start, heading |-> m.heading]>> \o ExecAll(pat, s, m.end)

RECURSIVE InsertByStart(_, _)
\* Insert b behind every boundary that does not start later (a stable sort).
InsertByStart(sorted, b) ==
    IF sorted = <<>> THEN <<b>>
    ELSE IF sorted[Len(sorted)].start <= b.start THEN Append(sorted, b)
    ELSE Append(InsertByStart(SubSeq(sorted, 1, Len(sorted) - 1), b), sorted[Len(sorted)])

RECURSIVE SortByStart(_, _)
\* boundaries.sort((a, b) => a.start - b.start)
SortByStart(bs, k) ==
    IF k = 0 THEN <<>> ELSE InsertByStart(SortByStart(bs, k - 1), bs[k])

\* A deduplication that also keeps a boundary exactly DedupWindow behind.
KeptFromWindow(deduped, b) ==
    deduped = <<>> \/ b.start - deduped[Len(deduped)].start >= DedupWindow

\* Whether boundary b is kept behind the boundaries kept so far.
Kept(deduped, b) ==
    deduped = <<>> \/ b.start - deduped[Len(deduped)].start > DedupWindow

RECURSIVE Dedup(_, _, _)
Dedup(bs, k, deduped) ==
    IF k > Len(bs) THEN deduped
    ELSE Dedup(bs, k + 1, IF Kept(deduped, bs[k]) THEN Append(deduped, bs[k]) ELSE deduped)

\* The boundaries before sorting: the implicit one, then each pattern's matches.
RawBoundaries(s) ==
    <<[start |-> 0, heading |-> Undefined]>>
        \o ExecAll(HeadingPatterns[1], s, 0) \o ExecAll(HeadingPatterns[2], s, 0)

\* detectSectionBoundaries
DetectSectionBoundaries(s) ==
    LET raw == RawBoundaries(s)
    IN  Dedup(SortByStart(raw, Len(raw)), 1, <<>>)

(***************************************************************************)
(* chunkText                                                               *)
(***************************************************************************)
RECURSIVE PushAllPerSection(_, _, _, _)
\* A chunkIndex that restarts with every call: the position among subs.
PushAllPerSection(acc, subs, heading, k) ==
    IF k > Len(subs) THEN acc
    ELSE PushAllPerSection(
            Append(acc, [chunkIndex |-> k - 1, text |-> subs[k], section |-> heading]),
            subs, heading, k + 1)

RECURSIVE PushAll(_, _, _, _)
\* for (const sub of subChunks) chunks.push({chunkIndex: chunks.length, text: sub, section})
PushAll(acc, subs, heading, k) ==
    IF k > Len(subs) THEN acc
    ELSE PushAll(
            Append(acc, [chunkIndex |-> Len(acc), text |-> subs[k], section |-> heading]),
            subs, heading, k + 1)

RECURSIVE SectionLoop(_, _, _, _, _, _)
\* The loop over the sections; acc = [chunks, log, groups], log the outputs of
\* the splitByParagraphs calls made, groups the texts pushed by each iteration.
SectionLoop(s, sections, i, acc, max, ov) ==
    IF i > Len(sections) THEN acc
    ELSE LET start == sections[i].start
             end == IF i + 1 <= Len(sections) THEN sections[i + 1].start ELSE Len(s)
             sectionText == Trim(Slice(s, start, end))
             sub == SplitByParagraphs(sectionText, max, ov)
             next == IF sectionText = <<>> THEN acc
                     ELSE IF Len(sectionText) > max
                     THEN [chunks |-> PushAll(acc.chunks, sub, sections[i].heading, 1),
                           log |-> Append(acc.log, sub),
                           groups |-> Append(acc.groups, sub)]
                     ELSE [chunks |-> PushAll(acc.chunks, <<sectionText>>, sections[i].heading, 1),
                           log |-> acc.log,
                           groups |-> Append(acc.groups, <<sectionText>>)]
         IN  SectionLoop(s, sections, i + 1, next, max, ov)

\* chunkText, with the log of its splitByParagraphs calls.
ChunkTextRun(s, max, ov) ==
    LET sections == DetectSectionBoundaries(s)
        sub == SplitByParagraphs(s, max, ov)
    IN  IF Len(sections) > 1
        THEN SectionLoop(s, sections, 1,
                         [chunks |-> <<>>, log |-> <<>>, groups |-> <<>>], max, ov)
        ELSE [chunks |-> PushAll(<<>>, sub, Undefined, 1), log |-> <<sub>>,
              groups |-> <<sub>>]

ChunkText(s, max, ov) == ChunkTextRun(s, max, ov).chunks

(***************************************************************************)
(* Inputs of chunkText                                                     *)
(***************************************************************************)
\* Every text over "a", space and line break up to MaxShortLen characters.
ShortTexts == UNION {[1..n -> {"a", SP, NL}] : n \in 0..MaxShortLen}

\* Heading lines and section bodies.  "# A" with the body of 45 characters
\* spans exactly DedupWindow characters, with the body of 46 one more; every
\* other heading with a long body spans more, with the short body far less.
HeadingLines == {<<"#", SP, "A", NL>>, <<"A", "A", "A", "A", "A", NL>>}
Bodies ==
    { Rep("a", 45) \o <<NL>>,
      Rep("a", 46) \o <<NL>>,
      Rep("a", 22) \o <<SP>> \o Rep("a", 3) \o ParaBreak \o Rep("a", 25) \o <<NL>>,
      <<"a", "a", NL>> }
SectionForms == {h \o b : h \in HeadingLines, b \in Bodies}

\* Every text made of one to MaxSections section forms.
SectionedTexts ==
    {Flatten(f) : f \in UNION {[1..n -> SectionForms] : n \in 1..MaxSections}}

Texts == ShortTexts \cup SectionedTexts

\* maxChunkChars and overlapChars passed to chunkText.
MaxChunkCharsChoices == {2, 4, 60}
OverlapCharsChoices == {0, 2, 5}

IngestIdle ==
    /\ pc = "off"
    /\ error = "none"
    /\ extracted = "none"
    /\ chunks = <<>>
    /\ embI = 0
    /\ allEmbeddings = <<>>
    /\ embedCalls = <<>>
    /\ embedReturns = <<>>
    /\ embeddedChunks = <<>>
    /\ upI = 0
    /\ documentId = NoDoc
    /\ pending = NoCall
    /\ events = <<>>
    /\ calls = <<>>
    /\ returns = <<>>
    /\ documents = {}
    /\ chunkRows = <<>>
    /\ nextDocId = 1

ChunkInit ==
    /\ IngestIdle
    /\ RetrIdle
    /\ UploadIdle
    /\ EditIdle
    /\ cpc = "input"
    /\ text \in Texts
    /\ maxChunkChars \in MaxChunkCharsChoices
    /\ overlapChars \in OverlapCharsChoices
    /\ result = <<>>
    /\ splitLog = <<>>
    /\ detected = <<>>
    /\ emitted = <<>>

\* chunkText(text, maxChunkChars, overlapChars) is called and returns.
ChunkTextCall ==
    /\ cpc = "input"
    /\ LET run == ChunkTextRun(text, maxChunkChars, overlapChars)
       IN  /\ result' = run.chunks
           /\ splitLog' = run.log
           /\ emitted' = run.groups
    /\ detected' = DetectSectionBoundaries(text)
    /\ cpc' = "done"
    /\ UNCHANGED <<text, maxChunkChars, overlapChars>>
    /\ UNCHANGED <<ingestVars, storeVars, retrVars, uploadVars, editVars>>

ChunkNext == ChunkTextCall

ChunkSpec == ChunkInit /\ [][ChunkNext]_vars

(***************************************************************************)
(* Retrieval: retrievalTool.execute (the assistant's tool) and              *)
(* POST /api/embed/search, both over the action searchByEmbedding.          *)
(* Similarity and relevance scores are counted in hundredths.               *)
(***************************************************************************)
\* retrievalTool: limit: 50, minScore: 0 of its searchByEmbedding call
ToolSearchLimit == 50
ToolMinScore == 0
\* retrievalTool: results.slice(0, 10) of the fallback
FallbackLimit == 10
\* retrievalTool: topN: 10 of cohere.v2.rerank
TopN == 10
\* retrievalTool: .filter((r) => r.rerankScore > 0.2)
RerankFloor == 20
\* limit ?? 10, minScore ?? 0.8
DefaultLimit == 10
DefaultMinScore == 80

\* value ?? fallback
Coalesce(v, d) == IF v = NotGiven THEN d ELSE v

\* value || fallback, for a string or undefined
OrElse(v, d) == IF v \in {"undefined", ""} THEN d ELSE v

\* How many chunks a store has at each of the similarities 0.95, 0.8, 0.79.
FewCounts == {0, 1}

\* The stores: up to MaxStored chunks, listed best first, with similarities
\* 0.95, 0.8, 0.79, 0.4 and -0.1.
StoredLists ==
    {Rep(95, q[1]) \o Rep(80, q[2]) \o Rep(79, q[3]) \o Rep(40, q[4]) \o Rep(-10, q[5]) :
        q \in {q \in FewCounts \X FewCounts \X FewCounts \X (0..MaxStored) \X (0..MaxStored) :
                  q[1] + q[2] + q[3] + q[4] + q[5] <= MaxStored}}

\* getChunkById: the chunk with the name of its document.  Every second chunk
\* has no section, every third one a document without file name.
ChunkById(id) ==
    [id |-> id, text |-> id,
     section |-> IF id % 2 = 0 THEN "undefined" ELSE "Intro",
     documentName |-> IF id % 3 = 0 THEN "undefined" ELSE "a.pdf"]

\* ctx.vectorSearch("chunks", "by_embedding", {vector, limit: n}): the n most
\* similar chunks, best first.
VectorSearch(st, n) == [k \in 1..Min(n, Len(st)) |-> [id |-> k, score |-> st[k]]]

\* {...chunk, score: result._score}
Scored(id, score) ==
    [id |-> id, text |-> ChunkById(id).text, section |-> ChunkById(id).section,
     documentName |-> ChunkById(id).documentName, score |-> score]

\* searchByEmbedding: result._score >= minScore
PassesMinScore(score, minScore) == score >= minScore

RECURSIVE FilterLoop(_, _, _, _, _, _)
\* searchByEmbedding: the loop over the results of the vector search, left
\* once limit chunks are collected; a chunk that is gone is skipped.
FilterLoop(res, k, out, limit, minScore, gone) ==
    IF k > Len(res) THEN out
    ELSE IF PassesMinScore(res[k].score, minScore)
    THEN LET out2 == IF res[k].id # gone
                     THEN Append(out, Scored(res[k].id, res[k].score))
                     ELSE out
         IN  IF Len(out2) >= limit THEN out2
             ELSE FilterLoop(res, k + 1, out2, limit, minScore, gone)
    ELSE FilterLoop(res, k + 1, out, limit, minScore, gone)

\* The action searchByEmbedding.
SearchByEmbedding(st, limitArg, minScoreArg, gone) ==
    LET limit == Coalesce(limitArg, DefaultLimit)
        minScore == Coalesce(minScoreArg, DefaultMinScore)
    IN  FilterLoop(VectorSearch(st, limit * 2), 1, <<>>, limit, minScore, gone)

\* retrievalTool, no reranker: results.slice(0, 10).map(...)
FormatFallback(cands) ==
    [j \in 1..Min(FallbackLimit, Len(cands)) |->
        [rank |-> j, score |-> cands[j].score,
         document |-> OrElse(cands[j].documentName, "Unknown"),
         section |-> OrElse(cands[j].section, "N/A"),
         text |-> cands[j].text]]

\* The orders in which the reranker can list n documents (1-based).
RerankOrder(order, n, j) ==
    CASE order = "same" -> j
      [] order = "reversed" -> n + 1 - j
      [] OTHER -> (j % n) + 1

\* reranked.results: the TopN most relevant documents at most, most relevant
\* first, each with the 0-based index of the document in the request.  The
\* last tailLen entries have relevance tailValue, the ones before 90.
RerankResponse(order, tailValue, tailLen, n) ==
    [j \in 1..Min(TopN, n) |->
        [index |-> RerankOrder(order, n, j) - 1,
         relevanceScore |-> IF j > Min(TopN, n) - tailLen THEN tailValue ELSE 90]]

\* retrievalTool: reranked.results.map((rerankResult) => ...results[rerankResult.index]...)
Merge(rr, cands) ==
    [j \in 1..Len(rr) |->
        LET originalResult == cands[rr[j].index + 1]
        IN  [rank |-> rr[j].index + 1,
             vectorScore |-> originalResult.score,
             rerankScore |-> rr[j].relevanceScore,
             document |-> OrElse(originalResult.documentName, "Unknown"),
             section |-> OrElse(originalResult.section, "N/A"),
             text |-> originalResult.text]]

\* A filter that keeps an entry at the floor.
AtOrAboveFloor(r) == r.rerankScore >= RerankFloor

\* retrievalTool: .filter((r) => r.rerankScore > 0.2)
AboveFloor(r) == r.rerankScore > RerankFloor

Respond(status, kind, results) ==
    /\ response' = [status |-> status, kind |-> kind, results |-> results]
    /\ rpc' = "done"

\* The retrieval awaits the service op.
Calling(op) == extCalls' = [extCalls EXCEPT !.called = @ \cup {op}]

\* The step op threw: control is in the catch block.
Failing(op) == extCalls' = [extCalls EXCEPT !.failed = op]

\* A catch block that answers with the candidates found so far.
AnswersWithCandidates(found) ==
    [status |-> "ok", kind |-> "fallback", results |-> FormatFallback(found)]

\* retrievalTool: catch: {success: false, error}; POST /api/embed/search:
\* catch: status 500 with {error}.  Neither has a list of results.
Caught(found) == [status |-> "error", kind |-> entry, results |-> <<>>]

\* Control reaches the catch block, whose value is returned to the caller.
Catch ==
    /\ response' = Caught(candidates)
    /\ rpc' = "done"

\* A check that never finds the list of candidates empty.
NeverEmpty(results) == FALSE

\* retrievalTool: results.length === 0
NoCandidates(results) == results = <<>>

\* What is given to one retrieval.
RetrInit ==
    /\ IngestIdle
    /\ ChunkIdle
    /\ UploadIdle
    /\ EditIdle
    /\ rpc = "input"
    /\ entry \in {"tool", "route"}
    /\ stored \in StoredLists
    /\ goneId \in {0, 1}
    /\ hasReranker \in BOOLEAN
    /\ reqLimit \in {NotGiven, 1}
    /\ reqMinScore \in {NotGiven, 0, 40}
    /\ entry = "tool" => reqLimit = NotGiven /\ reqMinScore = NotGiven
    /\ entry = "route" => ~hasReranker
    /\ candidates = <<>>
    /\ reranked = <<>>
    /\ extCalls = NoCalls
    /\ response = NoResponse

\* POST /api/embed/search without query: 400.
RouteRejects ==
    /\ rpc = "input"
    /\ entry = "route"
    /\ Respond("badRequest", "route", <<>>)
    /\ UNCHANGED <<entry, stored, goneId, hasReranker, reqLimit, reqMinScore,
                   candidates, reranked, extCalls>>
    /\ UNCHANGED <<ingestVars, storeVars, chunkVars, uploadVars, editVars>>

\* The retrieval starts.  The tool builds its Convex client first (CONVEX_URL
\* must be set), then both embed the query.
StartRetrieval(configured) ==
    /\ rpc = "input"
    /\ IF entry = "tool" /\ ~configured
       THEN /\ Catch
            /\ Failing("config")
       ELSE /\ rpc' = "embedding"
            /\ Calling("embed")
            /\ UNCHANGED response
    /\ UNCHANGED <<entry, stored, goneId, hasReranker, reqLimit, reqMinScore,
                   candidates, reranked>>
    /\ UNCHANGED <<ingestVars, storeVars, chunkVars, uploadVars, editVars>>

\* The embedding of the query returns (or throws).  The route builds its
\* Convex client now; then searchByEmbedding is called.
QueryEmbedReturn(outcome, configured) ==
    /\ rpc = "embedding"
    /\ IF outcome = "throws"
       THEN /\ Catch
            /\ Failing("embed")
       ELSE IF entry = "route" /\ ~configured
       THEN /\ Catch
            /\ Failing("config")
       ELSE /\ rpc' = "searching"
            /\ Calling("search")
            /\ UNCHANGED response
    /\ UNCHANGED <<entry, stored, goneId, hasReranker, reqLimit, reqMinScore,
                   candidates, reranked>>
    /\ UNCHANGED <<ingestVars, storeVars, chunkVars, uploadVars, editVars>>

\* searchByEmbedding returns (or throws).  The route answers with the
\* results; the tool answers when there is none or when it has no reranker,
\* else it calls the reranker with the texts of the results.
SearchReturn(outcome) ==
    /\ rpc = "searching"
    /\ IF outcome = "throws"
       THEN /\ Catch
            /\ Failing("search")
            /\ UNCHANGED candidates
       ELSE LET results == IF entry = "tool"
                           THEN SearchByEmbedding(stored, ToolSearchLimit, ToolMinScore, goneId)
                           ELSE SearchByEmbedding(stored, reqLimit, reqMinScore, goneId)
            IN  /\ candidates' = results
                /\ IF entry = "route"
                   THEN Respond("ok", "route", results) /\ UNCHANGED extCalls
                   ELSE IF NoCandidates(results)
                   THEN Respond("ok", "empty", <<>>) /\ UNCHANGED extCalls
                   ELSE IF ~hasReranker
                   THEN Respond("ok", "fallback", FormatFallback(results)) /\ UNCHANGED extCalls
                   ELSE /\ rpc' = "reranking"
                        /\ Calling("rerank")
                        /\ UNCHANGED response
    /\ UNCHANGED <<entry, stored, goneId, hasReranker, reqLimit, reqMinScore, reranked>>
    /\ UNCHANGED <<ingestVars, storeVars, chunkVars, uploadVars, editVars>>

\* cohere.v2.rerank returns (or throws): merge, filter, answer.
RerankReturn(outcome, order, tailValue, tailLen) ==
    /\ rpc = "reranking"
    /\ IF outcome = "throws"
       THEN /\ Catch
            /\ Failing("rerank")
            /\ UNCHANGED reranked
       ELSE LET rr == RerankResponse(order, tailValue, tailLen, Len(candidates))
            IN  /\ reranked' = rr
                /\ UNCHANGED extCalls
                /\ Respond("ok", "reranked", SelectSeq(Merge(rr, candidates), AboveFloor))
    /\ UNCHANGED <<entry, stored, goneId, hasReranker, reqLimit, reqMinScore, candidates>>
    /\ UNCHANGED <<ingestVars, storeVars, chunkVars, uploadVars, editVars>>

RetrNext ==
    \/ RouteRejects
    \/ \E c \in BOOLEAN : StartRetrieval(c)
    \/ \E o \in {"ok", "throws"}, c \in BOOLEAN : QueryEmbedReturn(o, c)
    \/ \E o \in {"ok", "throws"} : SearchReturn(o)
    \/ \E o \in {"ok", "throws"}, order \in {"same", "reversed", "rotated"},
          v \in {19, 20, 21}, t \in 0..2 : RerankReturn(o, order, v, t)

RetrSpec == RetrInit /\ [][RetrNext]_vars

(***************************************************************************)
(* Two web uploads handled concurrently by POST /api/embed: the temporary  *)
(* file of each.  Each await of the handler is a point where the other     *)
(* request can run.                                                         *)
(***************************************************************************)
\* path.join(os.tmpdir(), 'word-editor-uploads', `${Date.now()}.pdf`)
TempFilePath(r, now) == now

UploadsInit ==
    /\ IngestIdle
    /\ ChunkIdle
    /\ RetrIdle
    /\ EditIdle
    /\ clock = 0
    /\ tmpFiles = [t \in Millis |-> NoFile]
    /\ uploads = [r \in Requests |-> [pc |-> "new", tempFilePath |-> NoPath, got |-> NotRead]]

\* A millisecond passes.
Tick ==
    /\ clock < MaxClock
    /\ clock' = clock + 1
    /\ UNCHANGED <<tmpFiles, uploads>>
    /\ UNCHANGED <<ingestVars, storeVars, chunkVars, retrVars, editVars>>

\* The handler of request r names its temporary file and calls writeFile.
TakePath(r) ==
    /\ uploads[r].pc = "new"
    /\ uploads' = [uploads EXCEPT ![r].pc = "writing",
                                  ![r].tempFilePath = TempFilePath(r, clock)]
    /\ UNCHANGED <<clock, tmpFiles>>
    /\ UNCHANGED <<ingestVars, storeVars, chunkVars, retrVars, editVars>>

\* writeFile(tempFilePath, buffer) of request r has written the file.
WriteLands(r) ==
    /\ uploads[r].pc = "writing"
    /\ tmpFiles' = [tmpFiles EXCEPT ![uploads[r].tempFilePath] = r]
    /\ uploads' = [uploads EXCEPT ![r].pc = "written"]
    /\ UNCHANGED clock
    /\ UNCHANGED <<ingestVars, storeVars, chunkVars, retrVars, editVars>>

\* The handler of request r resumes after writeFile: the stream starts and
\* extractTextFromPDF reads the file (fs.readFileSync throws when it is gone).
StreamStart(r) ==
    /\ uploads[r].pc = "written"
    /\ uploads' = [uploads EXCEPT
          ![r].pc = "processing",
          ![r].got = IF tmpFiles[uploads[r].tempFilePath] = NoFile THEN Enoent
                     ELSE tmpFiles[uploads[r].tempFilePath]]
    /\ UNCHANGED <<clock, tmpFiles>>
    /\ UNCHANGED <<ingestVars, storeVars, chunkVars, retrVars, editVars>>

\* finally of request r, after its pipeline ended or failed:
\* if (tempFilePath && existsSync(tempFilePath)) await unlink(tempFilePath)
Cleanup(r) ==
    /\ uploads[r].pc = "processing"
    /\ tmpFiles' = [tmpFiles EXCEPT ![uploads[r].tempFilePath] = NoFile]
    /\ uploads' = [uploads EXCEPT ![r].pc = "closed"]
    /\ UNCHANGED clock
    /\ UNCHANGED <<ingestVars, storeVars, chunkVars, retrVars, editVars>>

UploadsNext ==
    \/ Tick
    \/ \E r \in Requests : TakePath(r)
    \/ \E r \in Requests : WriteLands(r)
    \/ \E r \in Requests : StreamStart(r)
    \/ \E r \in Requests : Cleanup(r)

UploadsSpec == UploadsInit /\ [][UploadsNext]_vars

(***************************************************************************)
(* editTool: executeEditorTool run by ChatPanel.onToolCall.  HTML is a     *)
(* sequence of one-character strings; the editor holds the HTML it is      *)
(* given by setContent.                                                     *)
(***************************************************************************)
\* String.prototype.includes
Includes(s, t) ==
    \E i \in 0..(Len(s) - Len(t)) : SubSeq(s, i + 1, i + Len(t)) = t

\* String.prototype.replace(pattern: string, replacement): the first
\* occurrence only.
ReplaceFirst(s, t, n) ==
    LET i == MinOf({j \in 0..(Len(s) - Len(t)) : SubSeq(s, j + 1, j + Len(t)) = t})
    IN  SubSeq(s, 1, i) \o n \o SubSeq(s, i + Len(t) + 1, Len(s))

RECURSIVE EditLoop(_, _, _, _)
\* for (const edit of parameters.edits): st = [html, details], details the
\* success of each edit in the order applied.
EditLoop(edits, k, html, details) ==
    IF k > Len(edits) THEN [html |-> html, details |-> details]
    ELSE LET oldHtml == edits[k].oldHtml
             newHtml == edits[k].newHtml
         IN  IF oldHtml = Undefined \/ newHtml = Undefined
             THEN EditLoop(edits, k + 1, html, Append(details, FALSE))
             ELSE IF oldHtml = <<>>
             THEN EditLoop(edits, k + 1, html \o newHtml, Append(details, TRUE))
             ELSE IF Includes(html, oldHtml)
             THEN EditLoop(edits, k + 1, ReplaceFirst(html, oldHtml, newHtml),
                           Append(details, TRUE))
             ELSE EditLoop(edits, k + 1, html, Append(details, FALSE))

\* successCount, failCount
CountOf(details, b) == Cardinality({k \in 1..Len(details) : details[k] = b})

\* { success: false, error }: no result field.
Failure == [success |-> FALSE, hasResult |-> FALSE, applied |-> 0, failed |-> 0,
            details |-> <<>>]

\* executeEditorTool(editor, 'editTool', parameters): what it returns.
ExecuteEditorTool(editor, html, input, throws) ==
    IF ~editor THEN Failure
    ELSE IF ~input.valid THEN Failure
    ELSE LET run == EditLoop(input.edits, 1, html, <<>>)
             successCount == CountOf(run.details, TRUE)
         IN  IF successCount > 0 /\ throws THEN Failure
             ELSE [success |-> successCount > 0, hasResult |-> TRUE,
                   applied |-> successCount, failed |-> CountOf(run.details, FALSE),
                   details |-> run.details]

\* executeEditorTool: the document after the call.
ContentAfter(editor, html, input, throws) ==
    IF ~editor \/ ~input.valid \/ throws THEN html
    ELSE LET run == EditLoop(input.edits, 1, html, <<>>)
         IN  IF CountOf(run.details, TRUE) > 0 THEN run.html ELSE html

\* ChatPanel.onToolCall: output: result.result || 'Success'
ToolOutput(res) ==
    IF res.hasResult
    THEN [kind |-> "result", applied |-> res.applied, failed |-> res.failed,
          details |-> res.details]
    ELSE [kind |-> "Success", applied |-> 0, failed |-> 0, details |-> <<>>]

\* oldHtml and newHtml of an edit: empty, one element, or missing.
Snippets == {<<>>, <<"a">>, <<"b">>}
EditChoices ==
    [oldHtml : Snippets \cup {Undefined}, newHtml : Snippets]

\* The documents.
Documents == UNION {[1..n -> {"a", "b"}] : n \in 0..2}

EditInit ==
    /\ IngestIdle
    /\ ChunkIdle
    /\ RetrIdle
    /\ UploadIdle
    /\ epc = "input"
    /\ editorHtml \in Documents
    /\ htmlBefore = <<>>
    /\ toolInput \in [valid : BOOLEAN,
                      edits : UNION {[1..n -> EditChoices] : n \in 0..MaxEdits}]
    /\ ~toolInput.valid => toolInput.edits = <<>>
    /\ hasEditor \in BOOLEAN
    /\ setContentThrows \in BOOLEAN
    /\ ~hasEditor => toolInput.valid /\ ~setContentThrows
    /\ ~toolInput.valid => ~setContentThrows
    /\ toolResult = NoResult
    /\ toolOutput = NoOutput

\* ChatPanel.onToolCall for an editTool call: executeEditorTool, then
\* addToolOutput.
OnToolCall ==
    /\ epc = "input"
    /\ LET res == ExecuteEditorTool(hasEditor, editorHtml, toolInput, setContentThrows)
       IN  /\ toolResult' = res
           /\ toolOutput' = ToolOutput(res)
    /\ htmlBefore' = editorHtml
    /\ editorHtml' = ContentAfter(hasEditor, editorHtml, toolInput, setContentThrows)
    /\ epc' = "done"
    /\ UNCHANGED <<hasEditor, toolInput, setContentThrows>>
    /\ UNCHANGED <<ingestVars, storeVars, chunkVars, retrVars, uploadVars>>

EditNext == OnToolCall

EditSpec == EditInit /\ [][EditNext]_vars

(***************************************************************************)
(* Properties of the ingestion request                                     *)
(***************************************************************************)
ProgressValues ==
    LET ps == SelectSeq(events, LAMBDA e : e.type = "progress")
    IN  [k \in 1..Len(ps) |-> ps[k].progress]

\* Rows of table "chunks" owned by document id, in insertion order.
RowsOfDocument(id) == SelectSeq(chunkRows, LAMBDA r : r.documentId = id)

\* C1: when createDocument succeeded and a later step failed, the handler has
\* issued failDocument and the Document is in status "failed" once the request
\* is over (never left in "processing").
C1_FailedDocumentIsMarkedFailed ==
    (pc = "closed" /\ documentId # NoDoc /\ error # "none") =>
        /\ \E k \in 1..Len(calls) : calls[k].op = "failDocument"
        /\ \A d \in documents : d.id = documentId => d.status = "failed"

\* C2: a Document is "completed" only if every chunk produced for it is stored
\* (each once) and its totalChunks equals the number of its stored chunks; and
\* completeDocument is issued only when every mutation before it succeeded and
\* the storeChunks batches before it carried every chunk.
C2_CompletedOnlyWhenAllStored ==
    /\ \A d \in documents :
          d.status = "completed" =>
             LET rows == RowsOfDocument(d.id)
             IN  /\ d.id = documentId
                 /\ [k \in 1..Len(rows) |-> rows[k].chunkIndex]
                        = [k \in 1..Len(chunks) |-> chunks[k].chunkIndex]
                 /\ d.totalChunks = Len(rows)
    /\ \A k \in 1..Len(calls) :
          calls[k].op = "completeDocument" =>
             /\ \A j \in 1..(k - 1) : returns[j] = "ok"
             /\ Flatten([j \in 1..(k - 2) |-> calls[j + 1].chunks])
                    = [j \in 1..Len(chunks) |-> chunks[j].chunkIndex]

\* A multi-batch document has been completed.
C2_Witness ==
    \E d \in documents :
        /\ d.status = "completed"
        /\ d.totalChunks > 2 * UploadBatchSize
        /\ Len(RowsOfDocument(d.id)) = d.totalChunks

\* C3: the progress percentages of successive progress events of a request
\* never decrease.
C3_ProgressMonotonic ==
    \A i, j \in 1..Len(ProgressValues) :
        i < j => ProgressValues[i] <= ProgressValues[j]

\* C4: the "done" (100%) event is the last progress event, an "uploading"
\* event precedes it, and it is emitted only after every chunk was written
\* and completeDocument succeeded.
C4_DoneIsLastAndAfterCompletion ==
    \A k \in 1..Len(events) :
        events[k].stage = "done" =>
            /\ \A j \in (k + 1)..Len(events) : events[j].type # "progress"
            /\ \E j \in 1..(k - 1) : events[j].stage = "uploading"
            /\ \E c \in 1..Len(returns) :
                  calls[c].op = "completeDocument" /\ returns[c] = "ok"

\* C5: when the embedding provider failed, the failure is surfaced, a
\* Document of this ingestion exists in status "failed", and no chunk is stored.
C5_EmbeddingFailureLeavesFailedDocument ==
    error = "EmbeddingFailed" =>
        /\ \E k \in 1..Len(events) : events[k].type = "error"
        /\ chunkRows = <<>>
        /\ \E d \in documents : d.status = "failed"

\* C6: a successful ingestion issued exactly one createDocument, then
\* storeChunks batches that are non-empty, hold at most 20 chunks and, put end
\* to end, are the embedded chunks in ascending chunkIndex order (each once),
\* then exactly one completeDocument carrying the number of embedded chunks;
\* and at every moment at most one mutation is outstanding, the next one
\* being issued only after the previous one returned.
C6_UploadProtocol ==
    /\ Len(calls) - Len(returns) = (IF pending = NoCall THEN 0 ELSE 1)
    /\ (pending # NoCall => pending = calls[Len(calls)])
    /\ (pc = "closed" /\ error = "none") =>
          LET n == Len(calls)
              batches == [j \in 1..(n - 2) |-> calls[j + 1]]
          IN  /\ n >= 2
              /\ calls[1] = CreateCall
              /\ \A j \in 1..(n - 2) :
                    /\ batches[j].op = "storeChunks"
                    /\ batches[j].documentId = documentId
                    /\ Len(batches[j].chunks) \in 1..UploadBatchSize
              /\ Flatten([j \in 1..(n - 2) |-> batches[j].chunks])
                    = [j \in 1..Len(embeddedChunks) |-> j - 1]
              /\ [j \in 1..Len(embeddedChunks) |-> embeddedChunks[j].chunkIndex]
                    = [j \in 1..Len(embeddedChunks) |-> j - 1]
              /\ calls[n] = CompleteCall(documentId, Len(embeddedChunks))

\* A successful ingestion of a document that needed three or more batches,
\* the last one partial.
C6_Witness ==
    /\ pc = "closed"
    /\ error = "none"
    /\ Len(calls) >= 5
    /\ Len(embeddedChunks) % UploadBatchSize # 0

(***************************************************************************)
(* Properties of chunkText                                                 *)
(***************************************************************************)
\* The last n characters of s, the whole of s when it is shorter.
TrailingChars(s, n) ==
    IF n >= Len(s) THEN s ELSE SubSeq(s, Len(s) - n + 1, Len(s))

\* s without its leading whitespace.
TrimStart(s) == SubSeq(s, SkipSpace(s, 1), Len(s))

IsPrefix(p, s) == Len(p) <= Len(s) /\ SubSeq(s, 1, Len(p)) = p

\* ceil(a / b) for b > 0
CeilDiv(a, b) == (a + b - 1) \div b

\* C7: the chunks returned by chunkText carry chunkIndex 0..N-1 in emission
\* order, without gaps or repeats, and the index is not reset between sections.
C7_ChunkIndexIsPosition ==
    cpc = "done" =>
        \A k \in 1..Len(result) : result[k].chunkIndex = k - 1

\* A text of two sections at least, one of them split into several chunks by
\* splitByParagraphs, whose later section continues the numbering.
C7_Witness ==
    /\ cpc = "done"
    /\ \E j \in 1..Len(splitLog) : Len(splitLog[j]) >= 2
    /\ \E k \in 3..Len(result) :
          /\ result[k].section # result[k - 1].section
          /\ result[k].chunkIndex = k - 1

\* C8: no chunk returned by chunkText is longer than maxChunkChars, except a
\* chunk that is one single paragraph (no paragraph break inside, nothing
\* prepended) longer than maxChunkChars.
C8_NoChunkExceedsMax ==
    cpc = "done" =>
        \A k \in 1..Len(result) :
            \/ Len(result[k].text) <= maxChunkChars
            \/ Len(SplitParagraphs(result[k].text)) = 1

\* C9 as stated: when splitByParagraphs flushed chunk A and the next chunk it
\* emitted is B, B starts with the trailing overlapChars characters of A (with
\* the whole of A when A is shorter).
C9_NextChunkStartsWithTrailingChars ==
    cpc = "done" =>
        \A j \in 1..Len(splitLog) : \A k \in 1..(Len(splitLog[j]) - 1) :
            IsPrefix(TrailingChars(splitLog[j][k], overlapChars), splitLog[j][k + 1])

\* C9 amended: when splitByParagraphs flushed chunk A and the next chunk it
\* emitted is B, B starts with the trailing overlapChars characters of A (the
\* whole of A when A is shorter) without their leading whitespace: every chunk
\* is trimmed when it is emitted.
C9_NextChunkStartsWithTrimmedTrailingChars ==
    cpc = "done" =>
        \A j \in 1..Len(splitLog) : \A k \in 1..(Len(splitLog[j]) - 1) :
            IsPrefix(TrimStart(TrailingChars(splitLog[j][k], overlapChars)),
                     splitLog[j][k + 1])

\* A flush whose overlap begins with whitespace, followed by a second flush.
C9_Witness ==
    /\ cpc = "done"
    /\ overlapChars > 0
    /\ \E j \in 1..Len(splitLog) :
          /\ Len(splitLog[j]) >= 3
          /\ \E k \in 1..(Len(splitLog[j]) - 1) :
                LET seed == TrailingChars(splitLog[j][k], overlapChars)
                IN  /\ TrimStart(seed) # seed
                    /\ TrimStart(seed) # <<>>
                    /\ IsPrefix(TrimStart(seed), splitLog[j][k + 1])

\* C10: for a text without heading and without paragraph break whose length L
\* exceeds maxChunkChars (overlapChars < maxChunkChars), chunkText returns
\* ceil(L / (maxChunkChars - overlapChars)) chunks of at most maxChunkChars
\* characters, each starting maxChunkChars - overlapChars characters after
\* the one before.
C10_FixedWidthFallback ==
    LET cleaned == Trim(text)
        stride == maxChunkChars - overlapChars
    IN  ( /\ cpc = "done"
          /\ Len(RawBoundaries(text)) = 1
          /\ Len(SplitParagraphs(text)) = 1
          /\ Len(cleaned) > maxChunkChars
          /\ stride > 0 ) =>
            /\ Len(result) = CeilDiv(Len(cleaned), stride)
            /\ \A k \in 1..Len(result) :
                  /\ Len(result[k].text) <= maxChunkChars
                  /\ result[k].text
                        = Trim(Slice(cleaned, (k - 1) * stride, (k - 1) * stride + maxChunkChars))

\* The heading lines of s in text order: the matches of every heading pattern.
HeadingMatches(s) ==
    LET found == ExecAll(HeadingPatterns[1], s, 0) \o ExecAll(HeadingPatterns[2], s, 0)
    IN  SortByStart(found, Len(found))

\* The text from heading i of hs up to the next heading (or the end of s), trimmed.
HeadedSpan(s, hs, i) ==
    Trim(Slice(s, hs[i].start, IF i < Len(hs) THEN hs[i + 1].start ELSE Len(s)))

\* C11: for a text of k heading lines, the first at offset 0 and consecutive
\* ones more than 50 characters apart, each with its prose no longer than
\* maxChunkChars, chunkText returns k chunks and chunk i is labelled with the
\* text of heading i, the first one included.
C11_EveryHeadingLabelsItsChunk ==
    LET hs == HeadingMatches(text)
    IN  ( /\ cpc = "done"
          /\ Len(hs) >= 1
          /\ hs[1].start = 0
          /\ \A i \in 1..(Len(hs) - 1) : hs[i + 1].start - hs[i].start > DedupWindow
          /\ \A i \in 1..Len(hs) : Len(HeadedSpan(text, hs, i)) <= maxChunkChars ) =>
            /\ Len(result) = Len(hs)
            /\ \A i \in 1..Len(hs) : result[i].section = hs[i].heading

\* The boundaries of detectSectionBoundaries after its sort.
SortedBoundaries(s) == SortByStart(RawBoundaries(s), Len(RawBoundaries(s)))

\* The boundaries the deduplication has kept when it comes to sorted boundary j.
KeptBefore(s, j) == Dedup(SubSeq(SortedBoundaries(s), 1, j - 1), 1, <<>>)

\* Whether the deduplication keeps sorted boundary j.
Survives(s, j) == Len(KeptBefore(s, j + 1)) = Len(KeptBefore(s, j)) + 1

\* C12 as stated: the implicit boundary at offset 0 always survives, and a later
\* boundary is dropped exactly when its offset is less than 50 characters
\* behind the boundary kept before it: at 50 characters or more it survives.
C12_DropsExactlyWhenCloserThan50 ==
    cpc = "done" =>
        LET sorted == SortedBoundaries(text)
        IN  /\ detected = Dedup(sorted, 1, <<>>)
            /\ detected[1] = [start |-> 0, heading |-> Undefined]
            /\ \A j \in 2..Len(sorted) :
                  LET last == KeptBefore(text, j)[Len(KeptBefore(text, j))]
                  IN  Survives(text, j) <=> ~(sorted[j].start - last.start < 50)

\* C12 amended: the implicit boundary at offset 0 always survives, and a later
\* boundary is dropped exactly when its offset is at most 50 characters behind
\* the boundary kept before it (the earliest of the cluster): only boundaries
\* more than 50 characters apart both survive.
C12_DropsExactlyWhenWithin50 ==
    cpc = "done" =>
        LET sorted == SortedBoundaries(text)
        IN  /\ detected = Dedup(sorted, 1, <<>>)
            /\ detected[1] = [start |-> 0, heading |-> Undefined]
            /\ \A j \in 2..Len(sorted) :
                  LET last == KeptBefore(text, j)[Len(KeptBefore(text, j))]
                  IN  Survives(text, j) <=> (sorted[j].start - last.start > 50)

\* A heading exactly 50 characters behind the kept boundary has been dropped.
C12_Witness ==
    /\ cpc = "done"
    /\ \E j \in 2..Len(SortedBoundaries(text)) :
          LET last == KeptBefore(text, j)[Len(KeptBefore(text, j))]
          IN  /\ SortedBoundaries(text)[j].start - last.start = 50
              /\ ~Survives(text, j)
              /\ \A b \in 1..Len(detected) : detected[b].start # SortedBoundaries(text)[j].start

\* The characters of s that are no whitespace, in order.
Content(s) == SelectSeq(s, LAMBDA c : ~IsSpace(c))

\* The content of chunk k of group g without the overlap injected in front of
\* it: the trailing overlapChars characters of the chunk flushed before it.
OwnContent(g, k, ov) ==
    LET b == Content(g[k])
        o == IF k = 1 THEN <<>> ELSE Content(TrailingChars(g[k - 1], ov))
    IN  IF IsPrefix(o, b) THEN SubSeq(b, Len(o) + 1, Len(b)) ELSE b

ChunkTexts == [k \in 1..Len(chunks) |-> chunks[k].text]

\* generateEmbeddings has returned and every embedMany call was answered with
\* one vector per input in input order.
EmbeddedWithGoodProvider ==
    /\ pc # "embedding"
    /\ embedReturns # <<>>
    /\ \A k \in 1..Len(embedReturns) : embedReturns[k] = "ok"

\* The progress events of stage "embedding".
EmbeddingEvents == SelectSeq(events, LAMBDA e : e.stage = "embedding")

\* C14: with a provider that returns one vector per input in input order,
\* generateEmbeddings returns as many vectors as texts, the i-th being the
\* embedding of the i-th text, which is what one single batch of all the texts
\* gives; and the pipeline attaches vector i to the chunk with chunkIndex i.
C14_VectorsAlignedWhateverTheBatching ==
    EmbeddedWithGoodProvider =>
        /\ Len(allEmbeddings) = Len(ChunkTexts)
        /\ \A i \in 1..Len(ChunkTexts) : <<allEmbeddings[i]>> = Embed(<<ChunkTexts[i]>>)
        /\ allEmbeddings = Embed(ChunkTexts)
        /\ Len(embeddedChunks) = Len(chunks)
        /\ \A i \in 1..Len(embeddedChunks) :
              /\ embeddedChunks[i].chunkIndex = i - 1
              /\ embeddedChunks[i].text = chunks[i].text
              /\ embeddedChunks[i].embedding = allEmbeddings[i]

\* The texts of a document were embedded in three batches, the last partial.
C14_Witness ==
    /\ EmbeddedWithGoodProvider
    /\ Len(embedReturns) = 3
    /\ Len(embeddedChunks) > 2 * EmbedBatchSize

\* C15: at most one embedMany request is outstanding, the next batch being
\* requested only once the one before was answered; every batch holds at most
\* 100 texts; and the batches are consecutive slices that cover every text
\* once.
C15_EmbeddingBatchesAreSequential ==
    /\ Len(embedCalls) - Len(embedReturns) = (IF pc = "embedding" THEN 1 ELSE 0)
    /\ \A k \in 1..Len(embedCalls) : Len(embedCalls[k]) \in 1..100
    /\ IsPrefix(Flatten(embedCalls), ChunkTexts)
    /\ \A k \in 1..(Len(embedCalls) - 1) : Len(embedCalls[k]) = 100
    /\ (pc # "embedding" /\ embedReturns # <<>>
            /\ \A k \in 1..Len(embedReturns) : embedReturns[k] # "throws")
          => Flatten(embedCalls) = ChunkTexts

\* The third batch has been requested after two answers and is outstanding.
C15_Witness ==
    /\ pc = "embedding"
    /\ Len(embedCalls) = 3
    /\ Len(embedReturns) = 2

\* C16: when the embedMany request of a batch fails, no later batch is
\* requested, no progress is reported for the failed batch, nothing is
\* returned to the caller (the pipeline has no embedded chunks, issues no
\* store mutation) and the request ends with the embedding error.
C16_BatchFailureAbortsEmbedding ==
    \A k \in 1..Len(embedReturns) :
        embedReturns[k] = "throws" =>
            /\ k = Len(embedReturns)
            /\ Len(embedCalls) = k
            /\ Len(EmbeddingEvents) = k
            /\ embeddedChunks = <<>>
            /\ calls = <<>>
            /\ chunkRows = <<>>
            /\ error = "EmbeddingFailed"
            /\ pc = "closed"

\* The third batch of a document failed after two answered ones.
C16_Witness ==
    /\ Len(embedReturns) = 3
    /\ embedReturns[3] = "throws"
    /\ Len(allEmbeddings) = 2 * EmbedBatchSize

\* C17: after a batch response with a number of vectors different from the
\* number of texts the ingestion fails, and no chunk is returned by the
\* pipeline or stored whose embedding is missing or is that of another chunk.
C17_MalformedResponseFailsIngestion ==
    (\E k \in 1..Len(embedReturns) : embedReturns[k] \in {"short", "long"}) =>
        /\ pc = "closed" => error # "none"
        /\ \A i \in 1..Len(embeddedChunks) :
              <<embeddedChunks[i].embedding>> = Embed(<<embeddedChunks[i].text>>)
        /\ \A i \in 1..Len(chunkRows) :
              <<chunkRows[i].embedding>> = Embed(<<chunkRows[i].text>>)

\* C18: when the extracted text is only whitespace the request fails at once:
\* after the "extracting" event the only output is one error event (no
\* "chunking" or "embedding" event), no embedding request and no store
\* mutation is issued, no Document is created and no chunk is stored.
C18_BlankTextFailsFast ==
    extracted = "blank" =>
        /\ events = <<Progress("extracting", 10), ErrorEvent>>
        /\ error = "NoText"
        /\ pc = "closed"
        /\ chunks = <<>>
        /\ embedCalls = <<>>
        /\ calls = <<>>
        /\ documents = {}
        /\ nextDocId = 1
        /\ chunkRows = <<>>

\* The request of a PDF without text is over.
C18_Witness ==
    /\ extracted = "blank"
    /\ pc = "closed"
    /\ Len(events) = 2


(***************************************************************************)
(* Properties of retrieval                                                  *)
(***************************************************************************)
\* The similarities of the returned results are at least m, there are at most
\* n results, and they are listed best first.
ThresholdedTop(results, m, n) ==
    /\ \A k \in 1..Len(results) : results[k].score >= m
    /\ Len(results) <= n
    /\ \A k \in 1..(Len(results) - 1) : results[k].score >= results[k + 1].score

\* One chunk at similarity 0.95 and nine at 0.4, all of them still there.
OneGoodNinePoor == stored = <<95>> \o Rep(40, 9) /\ goneId = 0

\* C19: a retrieval that has no reranker succeeds, and what it returns are
\* only candidates whose similarity is at least minScore (0.8 unless the
\* caller gave one), at most limit of them (10 unless given), best first; from
\* a store with one chunk at 0.95 and nine below 0.5 it returns exactly one.
C19_FallbackAppliesMinScore ==
    (response.status = "ok" /\ response.kind \in {"fallback", "route"}) =>
        /\ ThresholdedTop(response.results,
                          Coalesce(reqMinScore, DefaultMinScore),
                          Coalesce(reqLimit, DefaultLimit))
        /\ (OneGoodNinePoor /\ reqMinScore = NotGiven /\ reqLimit = NotGiven)
               => Len(response.results) = 1


\* The positions of the reranker's list; those with a relevance at or above
\* the floor; those with a relevance above it.
RerankedPositions == [j \in 1..Len(reranked) |-> j]
AtLeastFloorAt(j) == reranked[j].relevanceScore >= RerankFloor
StrictlyAboveFloorAt(j) == reranked[j].relevanceScore > RerankFloor

\* The returned entry r is the one for position j of the reranker's list: it
\* has the similarity, document name, section and text of the candidate the
\* index at j refers to, and the relevance at j.
Cites(r, j) ==
    LET c == candidates[reranked[j].index + 1]
    IN  /\ r.vectorScore = c.score
        /\ r.rerankScore = reranked[j].relevanceScore
        /\ r.document = (IF c.documentName = "undefined" THEN "Unknown" ELSE c.documentName)
        /\ r.section = (IF c.section = "undefined" THEN "N/A" ELSE c.section)
        /\ r.text = ChunkById(c.id).text

\* The returned list is the reranker's list restricted to the positions kept.
ReturnsPositions(kept) ==
    /\ Len(reranked) <= TopN
    /\ Len(response.results) = Len(kept)
    /\ \A k \in 1..Len(kept) : Cites(response.results[k], kept[k])

\* C20 as stated: with a reranker the returned list is the reranker's top 10
\* in its order without the entries whose relevance is below 0.2, an entry at
\* or above 0.2 being kept, and each returned entry cites the candidate its
\* index refers to.
C20_KeepsAtOrAboveFloor ==
    (response.status = "ok" /\ response.kind = "reranked") =>
        ReturnsPositions(SelectSeq(RerankedPositions, AtLeastFloorAt))

\* C20: with a reranker the returned list is the reranker's top 10 in its
\* order without the entries whose relevance is 0.2 or below (only an entry
\* strictly above 0.2 is kept), and each returned entry has the vectorScore,
\* document name, section and text of the candidate its index refers to,
\* together with its rerankScore.
C20_KeepsStrictlyAboveFloor ==
    (response.status = "ok" /\ response.kind = "reranked") =>
        ReturnsPositions(SelectSeq(RerankedPositions, StrictlyAboveFloorAt))

\* C20: more than 10 candidates were reranked, the reranker listed them in
\* another order than the search, one entry has relevance exactly 0.2, and
\* some entries were returned.
C20_Witness ==
    /\ response.status = "ok"
    /\ response.kind = "reranked"
    /\ Len(candidates) > TopN
    /\ reranked[1].index # 0
    /\ \E j \in 1..Len(reranked) : reranked[j].relevanceScore = RerankFloor
    /\ Len(response.results) >= 1


\* The search was called and returned (nothing failed up to it).
SearchReturned ==
    /\ "search" \in extCalls.called
    /\ rpc \in {"reranking", "done"}
    /\ extCalls.failed \notin {"embed", "config", "search"}

\* C21: when the vector search returns no candidate, the retrieval answers
\* with a success and an empty list of results, never with an error, and the
\* reranker is not called.
C21_NoCandidatesIsSuccess ==
    (SearchReturned /\ candidates = <<>>) =>
        /\ rpc = "done"
        /\ response.status = "ok"
        /\ response.results = <<>>
        /\ "rerank" \notin extCalls.called
        /\ extCalls.failed = "none"

\* C21: the tool, with a reranker, searched a store that is not empty (its
\* chunks are all less similar than the threshold 0) and got no candidate.
C21_Witness ==
    /\ SearchReturned
    /\ candidates = <<>>
    /\ entry = "tool"
    /\ hasReranker
    /\ stored # <<>>
    /\ response.status = "ok"


\* C22: when the embedding of the query, the vector search or the reranking
\* fails (or the store is not configured), the retrieval has returned to its
\* caller, what the caller got is an error (success: false with a message, or
\* status 500 with an error body) and it has no list of results, in
\* particular not the candidates of the vector search.
C22_FailureIsStructuredError ==
    extCalls.failed # "none" =>
        /\ rpc = "done"
        /\ response.status = "error"
        /\ response.results = <<>>

\* C22: the reranking failed after the vector search had found candidates,
\* and the tool answered with an error.
C22_Witness ==
    /\ extCalls.failed = "rerank"
    /\ candidates # <<>>
    /\ response.status = "error"
    /\ response.kind = "tool"


\* C29: in the list the tool returns, reranked or not, the rank of the k-th
\* entry is k: the ranks are 1..N in the order returned, without gap or
\* repeat.
C29_RankIsPosition ==
    (response.status = "ok" /\ response.kind \in {"fallback", "reranked"}) =>
        \A k \in 1..Len(response.results) : response.results[k].rank = k


\* The text has a character that is no whitespace.
HasInk(s) == \E k \in 1..Len(s) : ~IsSpace(s[k])

\* Not empty, and neither the first nor the last character is whitespace.
IsTrimmedInk(s) == s # <<>> /\ ~IsSpace(s[1]) /\ ~IsSpace(s[Len(s)])

\* C26: for a text with a character that is no whitespace chunkText returns
\* at least one chunk, for an empty or whitespace-only text it returns none,
\* and every chunk returned is non-empty and neither starts nor ends with
\* whitespace.
C26_ChunksAreTrimmedInk ==
    cpc = "done" =>
        /\ HasInk(text) => Len(result) >= 1
        /\ ~HasInk(text) => result = <<>>
        /\ \A k \in 1..Len(result) : IsTrimmedInk(result[k].text)

\* C26: a text that starts and ends with whitespace and was cut into several
\* chunks.
C26_Witness ==
    /\ cpc = "done"
    /\ HasInk(text)
    /\ IsSpace(text[1])
    /\ IsSpace(text[Len(text)])
    /\ Len(result) >= 2

\* C30: chunkText returns for every text and every maxChunkChars and
\* overlapChars, also when overlapChars is maxChunkChars or more: the loop
\* that splits by character count, which would not end with a stride
\* maxChunkChars - overlapChars of zero or less, is not entered.
C30_ChunkTextTerminates ==
    cpc = "done" =>
        /\ \A k \in 1..Len(result) : result[k].text # Diverges
        /\ \A j \in 1..Len(splitLog) : \A k \in 1..Len(splitLog[j]) :
              splitLog[j][k] # Diverges

\* C30: splitByParagraphs was called with overlapChars >= maxChunkChars > 0 on
\* a text without paragraph break and returned.
C30_Witness ==
    /\ cpc = "done"
    /\ overlapChars >= maxChunkChars
    /\ HasInk(text)
    /\ Len(SplitParagraphs(text)) = 1
    /\ Len(splitLog) >= 1
    /\ Len(result) >= 1


\* The positions of the events of the given type on the response stream.
EventsOfType(type) == {k \in 1..Len(events) : events[k].type = type}

\* C27: a response stream that is closed carries exactly one terminal event:
\* either one result event, directly followed by [DONE] as the last item, or
\* one error event as the last item, never both; a stream still open carries
\* none of them.  The result event comes only after completeDocument returned
\* successfully, and its totalChunks and documentId are the ones passed to
\* completeDocument, the documentId being the one createDocument returned.
C27_OneTerminalEvent ==
    LET n == Len(events)
        results == EventsOfType("result")
        errors == EventsOfType("error")
        dones == EventsOfType("[DONE]")
    IN  /\ pc \notin {"closed"} => results \cup errors \cup dones = {}
        /\ pc = "closed" =>
              \/ /\ results = {n - 1}
                 /\ dones = {n}
                 /\ errors = {}
                 /\ calls[Len(calls)].op = "completeDocument"
                 /\ Len(returns) = Len(calls)
                 /\ returns[Len(returns)] = "ok"
                 /\ events[n - 1].totalChunks = calls[Len(calls)].totalChunks
                 /\ events[n - 1].totalChunks = Len(embeddedChunks)
                 /\ events[n - 1].documentId = calls[Len(calls)].documentId
                 /\ events[n - 1].documentId = documentId
                 /\ documentId # NoDoc
              \/ /\ errors = {n}
                 /\ results = {}
                 /\ dones = {}

\* C27: a stream closed after a result event for a document of several upload
\* batches.
C27_Witness ==
    /\ pc = "closed"
    /\ EventsOfType("result") # {}
    /\ Len(embeddedChunks) > UploadBatchSize


\* The documents created so far whose row is gone: ids are given once, and a
\* row leaves the table only by deleteDocument.
DeletedDocuments == {id \in 1..(nextDocId - 1) : \A d \in documents : d.id # id}

\* C23: once deleteDocument has completed for a document, the document is not
\* listed and the store holds no chunk with its documentId (so that no search
\* can return one), whatever the ingestion of the document does meanwhile.
C23_DeletedDocumentHasNoChunks ==
    \A id \in DeletedDocuments :
        \A k \in 1..Len(chunkRows) : chunkRows[k].documentId # id


(***************************************************************************)
(* Properties of concurrent uploads                                         *)
(***************************************************************************)
\* C24: two uploads handled concurrently share nothing: the pipeline of each
\* request extracts the bytes uploaded in that request, and when a request
\* is about to read its temporary file the file is there with its bytes,
\* neither overwritten nor deleted by the other request, in every
\* interleaving, also when both arrive in the same millisecond.
C24_UploadsShareNothing ==
    \A r \in Requests :
        /\ uploads[r].got \in {NotRead, r}
        /\ uploads[r].pc = "written" => tmpFiles[uploads[r].tempFilePath] = r


(***************************************************************************)
(* Properties of editTool                                                   *)
(***************************************************************************)
\* The orders of n edits.
Orders(n) == {p \in [1..n -> 1..n] : \A i, j \in 1..n : p[i] = p[j] => i = j}

\* The edits in the order p.
Reordered(edits, p) == [k \in 1..Len(edits) |-> edits[p[k]]]

\* The edits (by their place in the list given) that succeed when the list
\* is applied in the order p to html.
Succeeded(edits, p, html) ==
    {p[k] : k \in {j \in 1..Len(edits) :
                     EditLoop(Reordered(edits, p), 1, html, <<>>).details[j]}}

\* C25: the order of the edits given to editTool does not matter: applied in
\* any order to the same document they leave the same document HTML, and the
\* same edits succeed and fail.
C25_OrderDoesNotMatter ==
    (epc = "done" /\ hasEditor /\ toolInput.valid /\ ~setContentThrows) =>
        LET edits == toolInput.edits
            given == [k \in 1..Len(edits) |-> k]
        IN  \A p \in Orders(Len(edits)) :
               /\ ContentAfter(TRUE, htmlBefore,
                               [valid |-> TRUE, edits |-> Reordered(edits, p)], FALSE)
                     = editorHtml
               /\ Succeeded(edits, p, htmlBefore) = Succeeded(edits, given, htmlBefore)

\* C28: when executeEditorTool returns success: false for an editTool call
\* (no editor, invalid edits, setContent failed, no edit applied), the output
\* ChatPanel passes on reports the failure: it is never 'Success'.
C28_FailureIsReported ==
    (epc = "done" /\ ~toolResult.success) => toolOutput.kind # "Success"

=============================================================================
